---------------------------- MODULE Spec2Model ----------------------------
(***************************************************************************)
(* A model of gitrepo_server.py: the path sanitizer and resolver, the git   *)
(* command executor (precondition check, argument vector, timeout, output   *)
(* bounding, exit-status classification) and the operation handlers.        *)
(*                                                                         *)
(* Strings supplied by the caller are sequences of one-character strings.   *)
(* Text produced by the program is a sequence of segments (Text section).   *)
(***************************************************************************)
EXTENDS Integers, Sequences, FiniteSets, TLC

(***************************************************************************)
(* Bounds of the model.                                                     *)
(***************************************************************************)
\* longest string handed directly to sanitize_path / get_repo_path
MaxLen == 3
\* longest file path, commit hash or search term handed to a handler
MaxArgLen == 3
\* length of a short piece of captured output
SmallLen == 5
\* how far beyond the cap the longest captured output goes
OverLen == 60

(***************************************************************************)
(* Configuration (lines 25-27).                                             *)
(***************************************************************************)
\* GIT_REPOS_PATH of the modelled deployment: the directory "/r"
REPOS_BASE_PATH == <<"/", "r">>
MAX_OUTPUT_LENGTH == 10000
GIT_TIMEOUT == 30

(***************************************************************************)
(* Characters.                                                              *)
(***************************************************************************)
\* the characters str.strip() and str.split() treat as whitespace
Whitespace == {" ", "\t", "\n"}
\* the character class of the regular expression of line 37 (the backquote
\* is written "backquote": the lexer of TLA+ has no such character)
Metachars == {";", "&", "|", "backquote", "$", "(", ")", "{", "}"}
\* the characters re.sub(r'[^a-fA-F0-9]', ...) keeps (line 279)
HexChars == {"0", "1", "2", "3", "4", "5", "6", "7", "8", "9",
             "a", "b", "c", "d", "e", "f", "A", "B", "C", "D", "E", "F"}

\* all strings over alphabet A of length at most n
StringsUpTo(A, n) == UNION {[1..k -> A] : k \in 0..n}

(***************************************************************************)
(* String functions of Python, computed as Python computes them.            *)
(***************************************************************************)
\* s[i:] for a 1-based i
DropTo(s, i) == SubSeq(s, i, Len(s))

RECURSIVE LStrip(_)
LStrip(s) ==
    IF s # <<>> /\ s[1] \in Whitespace THEN LStrip(Tail(s)) ELSE s

RECURSIVE RStrip(_)
RStrip(s) ==
    IF s # <<>> /\ s[Len(s)] \in Whitespace
    THEN RStrip(SubSeq(s, 1, Len(s) - 1)) ELSE s

\* str.strip()
Strip(s) == RStrip(LStrip(s))

\* re.sub(r'[<set>]', '', s): every character of the set removed
RemoveChars(s, set) == SelectSeq(s, LAMBDA c : c \notin set)

\* s.replace('..', ''): non-overlapping occurrences, leftmost first, one pass
RECURSIVE RemoveDotDot(_)
RemoveDotDot(s) ==
    IF Len(s) < 2 THEN s
    ELSE IF s[1] = "." /\ s[2] = "." THEN RemoveDotDot(DropTo(s, 3))
    ELSE <<s[1]>> \o RemoveDotDot(Tail(s))

\* s.replace('"', '\\"')
RECURSIVE EscapeQuotes(_)
EscapeQuotes(s) ==
    IF s = <<>> THEN <<>>
    ELSE (IF s[1] = "\"" THEN <<"\\", "\"">> ELSE <<s[1]>>)
         \o EscapeQuotes(Tail(s))

\* s.startswith(p)
StartsWith(s, p) == Len(p) <= Len(s) /\ SubSeq(s, 1, Len(p)) = p

\* the maximal runs of characters outside seps: str.split() for seps =
\* Whitespace, the non-empty components of a path for seps = {"/"}
RECURSIVE Runs(_, _, _)
Runs(s, seps, cur) ==
    IF s = <<>> THEN (IF cur = <<>> THEN <<>> ELSE <<cur>>)
    ELSE IF s[1] \in seps
         THEN (IF cur = <<>> THEN <<>> ELSE <<cur>>) \o Runs(Tail(s), seps, <<>>)
         ELSE Runs(Tail(s), seps, Append(cur, s[1]))

Split(s) == Runs(s, Whitespace, <<>>)

\* is some occurrence of ".." left in s
HasDotDot(s) == \E i \in 1..(Len(s) - 1) : s[i] = "." /\ s[i + 1] = "."

(***************************************************************************)
(* sanitize_path (lines 31-42).                                             *)
(***************************************************************************)
\* a slip: the traversal removal done before the metacharacter removal
sanitize_path_swapped(path) ==
    IF path = <<>> \/ Strip(path) = <<>> THEN <<>>
    ELSE RemoveChars(RemoveDotDot(Strip(path)), Metachars)

sanitize_path(path) ==
    IF path = <<>> \/ Strip(path) = <<>> THEN <<>>
    ELSE RemoveDotDot(RemoveChars(Strip(path), Metachars))

(***************************************************************************)
(* The filesystem the server runs on.  A location is a sequence of names.   *)
(*   /r        the configured root                                          *)
(*   /r/a      a git repository                                             *)
(*   /r/x      a directory without a .git entry                             *)
(*   /r/ax     a symbolic link to /rx                                       *)
(*   /rx       a git repository beside the root                             *)
(*   /a        a git repository elsewhere                                   *)
(***************************************************************************)
Dirs == { <<>>, <<<<"r">>>>, <<<<"r">>, <<"a">>>>, <<<<"r">>, <<"x">>>>,
          <<<<"r", "x">>>>, <<<<"a">>>> }

GitDirs == { <<<<"r">>, <<"a">>>>, <<<<"r", "x">>>>, <<<<"a">>>> }

SymlinkAt == <<<<"r">>, <<"a", "x">>>>
SymlinkTarget == <<<<"r", "x">>>>

(***************************************************************************)
(* pathlib: join, resolve, str.                                             *)
(***************************************************************************)
\* Path(base) / name: an absolute name replaces the base
PathJoin(base, name) ==
    IF name # <<>> /\ name[1] = "/" THEN name ELSE base \o <<"/">> \o name

\* the components of a path string; pathlib drops empty and "." components
Components(p) == SelectSeq(Runs(p, {"/"}, <<>>), LAMBDA c : c # <<".">>)

\* Path.resolve(), non-strict: ".." steps to the parent, a symbolic link is
\* replaced by its target, a missing component is kept
RECURSIVE ResolveFrom(_, _)
ResolveFrom(cur, rest) ==
    IF rest = <<>> THEN cur
    ELSE LET c == Head(rest)
             nxt == IF c = <<".", ".">>
                    THEN (IF cur = <<>> THEN <<>> ELSE SubSeq(cur, 1, Len(cur) - 1))
                    ELSE IF Append(cur, c) = SymlinkAt THEN SymlinkTarget
                    ELSE Append(cur, c)
         IN ResolveFrom(nxt, Tail(rest))

Resolve(p) == ResolveFrom(<<>>, Components(p))

\* str(path) of an absolute location
RECURSIVE PathStr(_)
PathStr(loc) ==
    IF loc = <<>> THEN <<"/">>
    ELSE IF Len(loc) = 1 THEN <<"/">> \o loc[1]
    ELSE PathStr(SubSeq(loc, 1, Len(loc) - 1)) \o <<"/">> \o loc[Len(loc)]

\* os.path.isdir(p) and (Path(p) / ".git").exists()
IsDir(p) == Resolve(p) \in Dirs
HasGitEntry(p) == Resolve(p) \in GitDirs

\* loc lies in or under the location root
IsDescendant(loc, root) ==
    Len(root) <= Len(loc) /\ SubSeq(loc, 1, Len(root)) = root

(***************************************************************************)
(* get_repo_path (lines 44-66).                                             *)
(***************************************************************************)
get_repo_path(repo_name) ==
    IF repo_name = <<>> \/ Strip(repo_name) = <<>> THEN <<>>
    ELSE LET sanitized == sanitize_path(repo_name) IN
         IF sanitized = <<>> THEN <<>>
         ELSE LET resolved_path == PathStr(Resolve(PathJoin(REPOS_BASE_PATH, sanitized)))
                  base_path == PathStr(Resolve(REPOS_BASE_PATH))
              IN IF ~StartsWith(resolved_path, base_path) THEN <<>> ELSE resolved_path

(***************************************************************************)
(* Numbers and their decimal form.                                          *)
(***************************************************************************)
DigitChars == <<"0", "1", "2", "3", "4", "5", "6", "7", "8", "9">>

DigitVal(c) == (CHOOSE i \in 1..10 : DigitChars[i] = c) - 1

IsDigits(s) == s # <<>> /\ \A i \in 1..Len(s) : \E j \in 1..10 : DigitChars[j] = s[i]

RECURSIVE DigitsVal(_)
DigitsVal(s) ==
    IF s = <<>> THEN 0
    ELSE 10 * DigitsVal(SubSeq(s, 1, Len(s) - 1)) + DigitVal(s[Len(s)])

\* str(n) for n >= 0
RECURSIVE IntToStr(_)
IntToStr(n) ==
    IF n < 10 THEN <<DigitChars[n + 1]>>
    ELSE IntToStr(n \div 10) \o <<DigitChars[(n % 10) + 1]>>

\* int(s): surrounding whitespace and one sign are accepted, then digits only;
\* anything else raises ValueError
IntBody(s) ==
    LET t == Strip(s) IN
    IF t # <<>> /\ t[1] \in {"+", "-"} THEN Tail(t) ELSE t

IntRaises(s) == ~IsDigits(IntBody(s))

IntOf(s) ==
    IF Strip(s)[1] = "-" THEN 0 - DigitsVal(IntBody(s)) ELSE DigitsVal(IntBody(s))

\* the limit of repo_log and repo_file_history (lines 171-176, 306-311)
limit_int(limit) ==
    IF Strip(limit) = <<>> THEN 10
    ELSE IF IntRaises(limit) THEN 10
    ELSE IF IntOf(limit) < 1 \/ IntOf(limit) > 100 THEN 10
    ELSE IntOf(limit)

(***************************************************************************)
(* Text.  A text is a sequence of segments; a segment is n characters:      *)
(*   mark  a leading emoji (v names it)                                     *)
(*   lit   the fixed characters v                                           *)
(*   arg   the caller's or a derived string v                               *)
(*   num   the decimal form of the number v                                 *)
(*   cap   the first n characters of a captured output of class v           *)
(*   lines what the handler derives from the lines of the text v            *)
(* cut: only the first n characters of the segment are there;               *)
(* strip: str.strip() was applied at this end of the text.                  *)
(***************************************************************************)
Seg(k, v, n) == [k |-> k, v |-> v, n |-> n, cut |-> FALSE, strip |-> FALSE]

\* the emoji of two code points: the warning sign and the stopwatch
Mark(m) == Seg("mark", m, IF m \in {"warn", "clock"} THEN 2 ELSE 1)
Lit(s) == Seg("lit", s, Len(s))
Arg(s) == Seg("arg", s, Len(s))
Num(i) == Seg("num", i, Len(IntToStr(i)))
Cap(cls, n) == Seg("cap", cls, n)

RECURSIVE TLen(_)
TLen(t) == IF t = <<>> THEN 0 ELSE t[1].n + TLen(Tail(t))

\* t[:k]
RECURSIVE Take(_, _)
Take(t, k) ==
    IF t = <<>> \/ k <= 0 THEN <<>>
    ELSE IF t[1].n <= k THEN <<t[1]>> \o Take(Tail(t), k - t[1].n)
    ELSE <<[t[1] EXCEPT !.n = k, !.cut = TRUE]>>

\* two texts are the same characters
SameText(a, b) ==
    /\ Len(a) = Len(b)
    /\ \A i \in 1..Len(a) : a[i].k = b[i].k /\ a[i] = b[i]

SegIsBlank(s) ==
    \/ s.n = 0
    \/ s.k = "cap" /\ s.v = "blank"
    \/ s.k = "arg" /\ \A i \in 1..Len(s.v) : s.v[i] \in Whitespace

\* not t.strip()
IsBlank(t) == \A i \in 1..Len(t) : SegIsBlank(t[i])

\* t.strip()
StripText(t) ==
    [i \in 1..Len(t) |->
        IF i = 1 \/ i = Len(t) THEN [t[i] EXCEPT !.strip = TRUE] ELSE t[i]]

\* t.startswith(<emoji m>)
StartsWithMark(t, m) == t # <<>> /\ t[1].k = "mark" /\ t[1].v = m

\* "fatal:" in t.lower(): git's fatal messages begin with it
ContainsFatal(t) ==
    \E i \in 1..Len(t) : t[i].k = "cap" /\ t[i].v = "fatal" /\ t[i].n >= Len("fatal:")

(***************************************************************************)
(* The results of run_git_command (lines 68-102).                           *)
(***************************************************************************)
ErrInvalidPath == <<Mark("cross"), Lit(" Error: Invalid repository path")>>
ErrNotGit == <<Mark("cross"), Lit(" Error: Not a git repository")>>
Completed == <<Mark("check"), Lit(" Command completed successfully")>>
TimedOut(timeout) ==
    <<Mark("clock"), Lit(" Command timed out after "), Num(timeout), Lit(" seconds")>>
\* the text of the exception is not modelled
ErrExec == <<Mark("cross"), Lit(" Error executing git command: ")>>

\* output = result.stdout if result.stdout else result.stderr (line 88)
Captured(out, err) == IF out.n > 0 THEN out ELSE err

CapText(c) == IF c.n = 0 THEN <<>> ELSE <<Cap(c.cls, c.n)>>

\* lines 90-91
Bound(output) ==
    IF TLen(output) > MAX_OUTPUT_LENGTH
    THEN Take(output, MAX_OUTPUT_LENGTH)
         \o <<Lit("\n\n... [Output truncated. Total: "), Num(TLen(output)), Lit(" chars]")>>
    ELSE output

\* lines 93-96
Classify(rc, output) ==
    IF rc = 0 THEN (IF ~IsBlank(output) THEN output ELSE Completed)
    ELSE <<Mark("warn"), Lit(" Git command completed with status "), Num(rc), Lit(":\n")>>
         \o output

\* lines 88-96
ExitResult(rc, out, err) == Classify(rc, Bound(CapText(Captured(out, err))))

\* truncate_output (lines 104-108)
truncate_output(output) ==
    IF TLen(output) > MAX_OUTPUT_LENGTH
    THEN Take(output, MAX_OUTPUT_LENGTH)
         \o <<Lit("\n\n... [Truncated from "), Num(TLen(output)), Lit(" chars]")>>
    ELSE output

\* cmd = ["git", "-C", repo_path] + args.split() (line 79)
BuildCmd(path, args) == <<<<"git">>, <<"-C">>, path>> \o Split(args)

(***************************************************************************)
(* The handlers' inputs.                                                    *)
(***************************************************************************)
\* the strings handed directly to sanitize_path and get_repo_path
PathAlphabet == {"/", "r", "x", "a", ".", ";", " "}
Paths == StringsUpTo(PathAlphabet, MaxLen)

\* repository names: absent, blank, a repository, a directory without .git,
\* the symbolic link out of the root, a missing name, an absolute path
\* outside the root, a name of metacharacters only
RepoNames == { <<>>, <<" ">>, <<"a">>, <<"x">>, <<"a", "x">>, <<"r">>,
               <<"/", "a">>, <<";">> }

\* get_repo_path of each of these names, computed once
RepoPathOf == [n \in RepoNames |-> get_repo_path(n)]

FilePaths == StringsUpTo({"a", "-", " "}, MaxArgLen) \cup {<<";">>, <<".", ".">>}
CommitHashes == StringsUpTo({"a", "z", " "}, MaxArgLen)
SearchTerms == StringsUpTo({"a", " ", "\""}, MaxArgLen)
Limits == { <<>>, <<"5">>, <<"1", "0", "0">>, <<"1", "0", "1">>, <<"0">>,
            <<"x">>, <<"-", "1">> }

NameOnlyOps == {"repo_status", "repo_branches", "repo_remote",
                "repo_current_branch", "repo_stats"}
Handlers == NameOnlyOps \cup {"repo_log", "repo_diff", "repo_show_commit",
                              "repo_file_history", "repo_search"}
Utilities == {"sanitize_path", "get_repo_path"}

\* the defaults of the handlers' parameters
NoArgs == [repo_name |-> <<>>, file_path |-> <<>>, commit_hash |-> <<>>,
           search_term |-> <<>>, limit |-> <<"1", "0">>, path |-> <<>>]

(***************************************************************************)
(* The handlers' own argument handling.                                     *)
(***************************************************************************)
\* a slip: repo_show_commit without its check of the commit hash
RequiredMissing_nohash(o, a) ==
    IF Strip(a.repo_name) = <<>> THEN "Repository name"
    ELSE IF o = "repo_file_history" /\ Strip(a.file_path) = <<>> THEN "File path"
    ELSE IF o = "repo_search" /\ Strip(a.search_term) = <<>> THEN "Search term"
    ELSE ""

\* the blank required argument a handler reports, "" when there is none
\* (lines 148, 271, 295, 325 and their like)
RequiredMissing(o, a) ==
    IF Strip(a.repo_name) = <<>> THEN "Repository name"
    ELSE IF o = "repo_show_commit" /\ Strip(a.commit_hash) = <<>> THEN "Commit hash"
    ELSE IF o = "repo_file_history" /\ Strip(a.file_path) = <<>> THEN "File path"
    ELSE IF o = "repo_search" /\ Strip(a.search_term) = <<>> THEN "Search term"
    ELSE ""

ErrRequired(what) == <<Mark("cross"), Lit(" Error: " \o what \o " is required")>>
ErrInvalidName == <<Mark("cross"), Lit(" Error: Invalid repository name")>>
ErrInvalidFile == <<Mark("cross"), Lit(" Error: Invalid file path")>>
ErrInvalidHash == <<Mark("cross"), Lit(" Error: Invalid commit hash format")>>

\* re.sub(r'[^a-fA-F0-9]', '', commit_hash.strip()) (line 279)
sanitized_hash(a) == SelectSeq(Strip(a.commit_hash), LAMBDA c : c \in HexChars)

\* does repo_diff take the branch of line 210
DiffHasFile(a) == Strip(a.file_path) # <<>>

\* the error a handler returns between path resolution and the executor
PrepError(o, a) ==
    IF o = "repo_diff" /\ DiffHasFile(a) /\ sanitize_path(a.file_path) = <<>>
    THEN ErrInvalidFile
    ELSE IF o = "repo_show_commit" /\ sanitized_hash(a) = <<>> THEN ErrInvalidHash
    ELSE IF o = "repo_file_history" /\ sanitize_path(a.file_path) = <<>>
    THEN ErrInvalidFile
    ELSE <<>>

\* the args strings a handler hands to run_git_command, in order
Commands(o, a) ==
    CASE o = "repo_status" -> << <<"status">> >>
      [] o = "repo_log" ->
            << <<"log", " ", "--oneline", " ", "-n", " ">>
               \o IntToStr(limit_int(a.limit)) >>
      [] o = "repo_branches" -> << <<"branch", " ", "-a">> >>
      [] o = "repo_diff" ->
            IF DiffHasFile(a)
            THEN << <<"diff", " ">> \o sanitize_path(a.file_path) >>
            ELSE << <<"diff">> >>
      [] o = "repo_remote" -> << <<"remote", " ", "-v">> >>
      [] o = "repo_current_branch" -> << <<"branch", " ", "--show-current">> >>
      [] o = "repo_show_commit" -> << <<"show", " ">> \o sanitized_hash(a) >>
      [] o = "repo_file_history" ->
            << <<"log", " ", "--oneline", " ", "-n", " ">>
               \o IntToStr(limit_int(a.limit))
               \o <<" ", "--", " ">> \o sanitize_path(a.file_path) >>
      [] o = "repo_search" ->
            << <<"grep", " ", "-n", " ", "\"">>
               \o EscapeQuotes(Strip(a.search_term)) \o <<"\"">> >>
      [] o = "repo_stats" ->
            << <<"rev-list", " ", "--count", " ", "HEAD">>,
               <<"shortlog", " ", "-sn", " ", "--all">>,
               <<"branch", " ", "-a">> >>

\* what a handler derives from the non-blank lines of a text (lines 360-366)
LineCount(t) == Seg("lines", [what |-> "count", of |-> t], 1)
FirstLines(t) == Seg("lines", [what |-> "first5", of |-> t], 1)

\* the response a handler builds from the executor's results
Format(o, a, res) ==
    LET name == Arg(a.repo_name)
        result == res[1]
        nothing == IsBlank(result) \/ SameText(result, Completed)
    IN
    CASE o = "repo_status" ->
            <<Mark("chart"), Lit(" Status for "), name, Lit(":\n\n")>> \o result
      [] o = "repo_log" ->
            <<Mark("scroll"), Lit(" Last "), Num(limit_int(a.limit)),
              Lit(" commits for "), name, Lit(":\n\n")>> \o result
      [] o = "repo_branches" ->
            <<Mark("branch"), Lit(" Branches for "), name, Lit(":\n\n")>> \o result
      [] o = "repo_diff" ->
            LET target == IF DiffHasFile(a)
                          THEN <<Lit("file "), Arg(sanitize_path(a.file_path))>>
                          ELSE <<Lit("repository")>>
            IN IF nothing
               THEN <<Mark("check"), Lit(" No changes in ")>> \o target
               ELSE <<Mark("memo"), Lit(" Changes in "), name, Lit(" (")>>
                    \o target \o <<Lit("):\n\n")>> \o result
      [] o = "repo_remote" ->
            IF nothing
            THEN <<Mark("globe"), Lit(" No remotes configured for "), name>>
            ELSE <<Mark("globe"), Lit(" Remotes for "), name, Lit(":\n\n")>> \o result
      [] o = "repo_current_branch" ->
            IF /\ ~IsBlank(result)
               /\ ~StartsWithMark(result, "cross")
               /\ ~StartsWithMark(result, "warn")
            THEN <<Mark("branch"), Lit(" Current branch: ")>> \o StripText(result)
            ELSE result
      [] o = "repo_show_commit" ->
            <<Mark("memo"), Lit(" Commit "), Arg(sanitized_hash(a)), Lit(" in "),
              name, Lit(":\n\n")>> \o result
      [] o = "repo_file_history" ->
            <<Mark("scroll"), Lit(" History for "), Arg(sanitize_path(a.file_path)),
              Lit(" in "), name, Lit(":\n\n")>> \o result
      [] o = "repo_search" ->
            IF ContainsFatal(result) \/ IsBlank(result)
            THEN <<Mark("glass"), Lit(" No matches found for '"), Arg(a.search_term),
                   Lit("' in "), name>>
            ELSE <<Mark("glass"), Lit(" Search results for '"), Arg(a.search_term),
                   Lit("' in "), name, Lit(":\n\n")>> \o truncate_output(result)
      [] o = "repo_stats" ->
            <<Mark("chart"), Lit(" Repository Statistics for "), name,
              Lit(":\n\n"), Mark("memo"), Lit(" Total Commits: ")>>
            \o StripText(res[1])
            \o <<Lit("\n"), Mark("people"), Lit(" Contributors: "), LineCount(res[2]),
                 Lit("\n"), Mark("branch"), Lit(" Branches: "), LineCount(res[3]),
                 Lit("\n\nTop Contributors:\n"), FirstLines(res[2])>>

(***************************************************************************)
(* What a git process can do.                                               *)
(***************************************************************************)
ExitCodes == {0, 1, 128}

NoOutput == [cls |-> "blank", n |-> 0]

Lines(n) == [cls |-> "lines", n |-> n]

\* what the process wrote to its standard output and its standard error
Outputs == {
    [out |-> NoOutput, err |-> NoOutput],
    [out |-> [cls |-> "blank", n |-> 1], err |-> NoOutput],
    [out |-> Lines(SmallLen), err |-> NoOutput],
    [out |-> Lines(MAX_OUTPUT_LENGTH), err |-> NoOutput],
    [out |-> Lines(MAX_OUTPUT_LENGTH + 1), err |-> NoOutput],
    [out |-> Lines(SmallLen), err |-> [cls |-> "fatal", n |-> Len("fatal:") + SmallLen]],
    [out |-> NoOutput, err |-> [cls |-> "fatal", n |-> Len("fatal:") + SmallLen]],
    [out |-> NoOutput, err |-> [cls |-> "err", n |-> MAX_OUTPUT_LENGTH + OverLen]] }

(***************************************************************************)
(* State.                                                                   *)
(***************************************************************************)
VARIABLES
    pc,         \* where the call stands: idle, entry, resolve, prepare, run,
                \* spawn, wait, format, done
    op,         \* the function called
    arg,        \* its arguments
    ret,        \* the value a directly called sanitize_path / get_repo_path returned
    repo_path,  \* the handler's repo_path
    resolved,   \* get_repo_path was called in this call
    todo,       \* the args strings still to be handed to run_git_command
    proc,       \* the spawned git process: none, running, exited, killed
    elapsed,    \* how long the running process has run
    runs,       \* the executor's invocations of this call
    results,    \* what run_git_command returned, in order
    response    \* the text the handler returned, <<>> before

vars == <<pc, op, arg, ret, repo_path, resolved, todo, proc, elapsed, runs,
          results, response>>

Init ==
    /\ pc = "idle"
    /\ op = "none"
    /\ arg = NoArgs
    /\ ret = <<>>
    /\ repo_path = <<>>
    /\ resolved = FALSE
    /\ todo = <<>>
    /\ proc = "none"
    /\ elapsed = 0
    /\ runs = <<>>
    /\ results = <<>>
    /\ response = <<>>

(***************************************************************************)
(* A call arrives.                                                          *)
(***************************************************************************)
Begin(o, a) ==
    /\ pc' = "entry"
    /\ op' = o
    /\ arg' = a
    /\ UNCHANGED <<ret, repo_path, resolved, todo, proc, elapsed, runs, results,
                   response>>

CallUtility ==
    /\ pc = "idle"
    /\ \E o \in Utilities, p \in Paths : Begin(o, [NoArgs EXCEPT !.path = p])

CallNameOnly ==
    /\ pc = "idle"
    /\ \E o \in NameOnlyOps, n \in RepoNames : Begin(o, [NoArgs EXCEPT !.repo_name = n])

CallLog ==
    /\ pc = "idle"
    /\ \E n \in RepoNames, l \in Limits :
        Begin("repo_log", [NoArgs EXCEPT !.repo_name = n, !.limit = l])

CallDiff ==
    /\ pc = "idle"
    /\ \E n \in RepoNames, f \in FilePaths :
        Begin("repo_diff", [NoArgs EXCEPT !.repo_name = n, !.file_path = f])

CallShowCommit ==
    /\ pc = "idle"
    /\ \E n \in RepoNames, h \in CommitHashes :
        Begin("repo_show_commit", [NoArgs EXCEPT !.repo_name = n, !.commit_hash = h])

CallFileHistory ==
    /\ pc = "idle"
    /\ \E n \in RepoNames, f \in FilePaths, l \in Limits :
        Begin("repo_file_history",
              [NoArgs EXCEPT !.repo_name = n, !.file_path = f, !.limit = l])

CallSearch ==
    /\ pc = "idle"
    /\ \E n \in RepoNames, t \in SearchTerms :
        Begin("repo_search", [NoArgs EXCEPT !.repo_name = n, !.search_term = t])

(***************************************************************************)
(* sanitize_path and get_repo_path called directly.                         *)
(***************************************************************************)
SanitizePath ==
    /\ pc = "entry" /\ op = "sanitize_path"
    /\ ret' = sanitize_path(arg.path)
    /\ pc' = "done"
    /\ UNCHANGED <<op, arg, repo_path, resolved, todo, proc, elapsed, runs, results,
                   response>>

GetRepoPath ==
    /\ pc = "entry" /\ op = "get_repo_path"
    /\ ret' = get_repo_path(arg.path)
    /\ resolved' = TRUE
    /\ pc' = "done"
    /\ UNCHANGED <<op, arg, repo_path, todo, proc, elapsed, runs, results, response>>

(***************************************************************************)
(* A handler, step by step.                                                 *)
(***************************************************************************)
\* the checks of the required arguments
Validate ==
    /\ pc = "entry" /\ op \in Handlers
    /\ IF RequiredMissing(op, arg) # ""
       THEN /\ response' = ErrRequired(RequiredMissing(op, arg))
            /\ pc' = "done"
       ELSE /\ pc' = "resolve"
            /\ UNCHANGED response
    /\ UNCHANGED <<op, arg, ret, repo_path, resolved, todo, proc, elapsed, runs,
                   results>>

\* repo_path = get_repo_path(repo_name), and the return on an empty path
ResolveRepo ==
    /\ pc = "resolve"
    /\ repo_path' = RepoPathOf[arg.repo_name]
    /\ resolved' = TRUE
    /\ IF repo_path' = <<>>
       THEN /\ response' = ErrInvalidName
            /\ pc' = "done"
       ELSE /\ pc' = "prepare"
            /\ UNCHANGED response
    /\ UNCHANGED <<op, arg, ret, todo, proc, elapsed, runs, results>>

\* the handler's own arguments: sanitized, filtered, parsed
Prepare ==
    /\ pc = "prepare"
    /\ IF PrepError(op, arg) # <<>>
       THEN /\ response' = PrepError(op, arg)
            /\ pc' = "done"
            /\ UNCHANGED todo
       ELSE /\ todo' = Commands(op, arg)
            /\ pc' = "run"
            /\ UNCHANGED response
    /\ UNCHANGED <<op, arg, ret, repo_path, resolved, proc, elapsed, runs, results>>

(***************************************************************************)
(* run_git_command.                                                         *)
(***************************************************************************)
\* run_git_command returns text: the handler goes on to its next invocation
\* or to its response
Returns(text) ==
    /\ results' = Append(results, text)
    /\ todo' = Tail(todo)
    /\ pc' = IF Tail(todo) = <<>> THEN "format" ELSE "run"

Run(end, cmd, rc, cap) == [end |-> end, argv |-> cmd, rc |-> rc, cap |-> cap]

\* lines 70-76
Precheck ==
    /\ pc = "run"
    /\ IF repo_path = <<>> \/ ~IsDir(repo_path)
       THEN /\ Returns(ErrInvalidPath)
            /\ runs' = Append(runs, Run("badpath", <<>>, 0, NoOutput))
       ELSE IF ~HasGitEntry(repo_path)
       THEN /\ Returns(ErrNotGit)
            /\ runs' = Append(runs, Run("notgit", <<>>, 0, NoOutput))
       ELSE /\ pc' = "spawn"
            /\ UNCHANGED <<todo, results, runs>>
    /\ UNCHANGED <<op, arg, ret, repo_path, resolved, proc, elapsed, response>>

\* subprocess.run starts the process (lines 79-86)
Spawn ==
    /\ pc = "spawn"
    /\ proc' = "running"
    /\ elapsed' = 0
    /\ runs' = Append(runs, Run("running", BuildCmd(repo_path, Head(todo)), 0, NoOutput))
    /\ pc' = "wait"
    /\ UNCHANGED <<op, arg, ret, repo_path, resolved, todo, results, response>>

\* subprocess.run raises something other than TimeoutExpired (lines 100-102)
SpawnFails ==
    /\ pc = "spawn"
    /\ runs' = Append(runs, Run("spawnfail", BuildCmd(repo_path, Head(todo)), 0, NoOutput))
    /\ Returns(ErrExec)
    /\ UNCHANGED <<op, arg, ret, repo_path, resolved, proc, elapsed, response>>

\* time passes while the process runs
Tick ==
    /\ pc = "wait" /\ proc = "running"
    /\ elapsed < GIT_TIMEOUT
    /\ elapsed' = elapsed + 1
    /\ UNCHANGED <<pc, op, arg, ret, repo_path, resolved, todo, proc, runs, results,
                   response>>

Finish(end, rc, cap) ==
    runs' = [runs EXCEPT ![Len(runs)] = Run(end, runs[Len(runs)].argv, rc, cap)]

\* the process ends before the timeout expires
ProcessExits ==
    /\ pc = "wait" /\ proc = "running"
    /\ elapsed < GIT_TIMEOUT
    /\ proc' = "exited"
    /\ elapsed' = 0
    /\ UNCHANGED <<pc, op, arg, ret, repo_path, resolved, todo, runs, results,
                   response>>

\* subprocess.run returns the exit status and the two captured streams, and
\* run_git_command makes its result of them (lines 88-96)
Collect ==
    /\ pc = "wait" /\ proc = "exited"
    /\ \E rc \in ExitCodes, o \in Outputs :
          /\ Finish("exit", rc, Captured(o.out, o.err))
          /\ Returns(ExitResult(rc, o.out, o.err))
    /\ UNCHANGED <<op, arg, ret, repo_path, resolved, proc, elapsed, response>>

\* a slip: the timeout reported and the process left alone
TimeoutExpired_nokill ==
    /\ pc = "wait" /\ proc = "running"
    /\ elapsed = GIT_TIMEOUT
    /\ Finish("timeout", 0, NoOutput)
    /\ Returns(TimedOut(GIT_TIMEOUT))
    /\ UNCHANGED <<op, arg, ret, repo_path, resolved, response, proc, elapsed>>

\* the timeout expires: subprocess.run kills the process, waits for it and
\* raises TimeoutExpired (lines 85, 98-99)
TimeoutExpired ==
    /\ pc = "wait" /\ proc = "running"
    /\ elapsed = GIT_TIMEOUT
    /\ proc' = "killed"
    /\ elapsed' = 0
    /\ Finish("timeout", 0, NoOutput)
    /\ Returns(TimedOut(GIT_TIMEOUT))
    /\ UNCHANGED <<op, arg, ret, repo_path, resolved, response>>

\* the handler's return statement
Respond ==
    /\ pc = "format"
    /\ response' = Format(op, arg, results)
    /\ pc' = "done"
    /\ UNCHANGED <<op, arg, ret, repo_path, resolved, todo, proc, elapsed, runs,
                   results>>

\* the call is over; nothing of it is kept
Return ==
    /\ pc = "done"
    /\ pc' = "idle"
    /\ op' = "none"
    /\ arg' = NoArgs
    /\ ret' = <<>>
    /\ repo_path' = <<>>
    /\ resolved' = FALSE
    /\ todo' = <<>>
    /\ proc' = "none"
    /\ elapsed' = 0
    /\ runs' = <<>>
    /\ results' = <<>>
    /\ response' = <<>>

HandlerCall ==
    \/ CallNameOnly
    \/ CallLog
    \/ CallDiff
    \/ CallShowCommit
    \/ CallFileHistory
    \/ CallSearch

HandlerStep ==
    \/ Validate
    \/ ResolveRepo
    \/ Prepare
    \/ Precheck
    \/ Spawn
    \/ SpawnFails
    \/ Tick
    \/ ProcessExits
    \/ Collect
    \/ TimeoutExpired
    \/ Respond
    \/ Return

Next ==
    \/ CallUtility
    \/ SanitizePath
    \/ GetRepoPath
    \/ HandlerCall
    \/ HandlerStep

Spec == Init /\ [][Next]_vars

\* The handlers alone, with what the interpreter and the operating system
\* guarantee: a handler that was called goes on to its next statement, a
\* running process ends or its time passes, and the timer of subprocess.run
\* fires.
FairSpec == Init /\ [][HandlerCall \/ HandlerStep]_vars /\ WF_vars(HandlerStep)

(***************************************************************************)
(* Properties.                                                              *)
(***************************************************************************)
RootLoc == Resolve(REPOS_BASE_PATH)

\* the call is a handler's and it has returned
Finished == pc = "done" /\ op \in Handlers

\* the invocations of the executor that built an argument vector
Spawned == {i \in 1..Len(runs) : runs[i].argv # <<>>}

\* C1: whenever get_repo_path accepts a name (returns a non-empty path), the
\* segments of the configured root are a prefix of the segments of the path
\* it returned.
C1_Confinement ==
    /\ (pc = "done" /\ op = "get_repo_path" /\ ret # <<>>)
          => IsDescendant(Components(ret), RootLoc)
    /\ (op \in Handlers /\ resolved /\ repo_path # <<>>)
          => IsDescendant(Components(repo_path), RootLoc)

\* where the sanitized name of the call leads
NameLoc == Resolve(PathJoin(REPOS_BASE_PATH, sanitize_path(arg.repo_name)))

\* the call names something that is no repository under the root: a place
\* outside the root, a place under it that is no directory, or a directory
\* under it without a .git entry
NoSuchRepo ==
    /\ sanitize_path(arg.repo_name) # <<>>
    /\ \/ ~IsDescendant(NameLoc, RootLoc)
       \/ NameLoc \notin Dirs
       \/ NameLoc \notin GitDirs

\* every required argument of the call is there and the handler's own
\* arguments are well formed
ArgsFine ==
    /\ Strip(arg.repo_name) # <<>>
    /\ op = "repo_show_commit" =>
          \E i \in 1..Len(arg.commit_hash) : arg.commit_hash[i] \in HexChars
    /\ op = "repo_file_history" => sanitize_path(arg.file_path) # <<>>
    /\ op = "repo_diff" =>
          (Strip(arg.file_path) = <<>> \/ sanitize_path(arg.file_path) # <<>>)
    /\ op = "repo_search" => Strip(arg.search_term) # <<>>

\* C2: a handler answers a name outside the root, a name under the root that
\* is no directory and a directory without a .git entry with the same generic
\* "Invalid repository name" response.
C2_UniformRejection ==
    (Finished /\ ArgsFine /\ NoSuchRepo)
        => (Len(response) = 2 /\ SameText(response, ErrInvalidName))

\* the number of tokens of the i-th git command of an operation: git, -C,
\* the path, the subcommand with its fixed options, and one token for each
\* value of the caller
TokensOf(o, a, i) ==
    3 + CASE o = "repo_status" -> 1
          [] o = "repo_log" -> 4
          [] o = "repo_branches" -> 2
          [] o = "repo_diff" -> (IF Strip(a.file_path) = <<>> THEN 1 ELSE 2)
          [] o = "repo_remote" -> 2
          [] o = "repo_current_branch" -> 2
          [] o = "repo_show_commit" -> 2
          [] o = "repo_file_history" -> 6
          [] o = "repo_search" -> 3
          [] o = "repo_stats" -> (IF i = 3 THEN 2 ELSE 3)

\* C3: the number of tokens handed to git for an operation does not depend on
\* what the caller's strings contain: each value is one token.
C3_ArgvShape ==
    \A i \in Spawned : Len(runs[i].argv) = TokensOf(op, arg, i)

\* the first token of the argument vector that comes from file_path
FirstFileToken == IF op = "repo_diff" THEN 5 ELSE 9

\* C4: in repo_diff and repo_file_history no token that comes from file_path
\* and starts with "-" stands where git parses options, that is before a
\* "--" token.
C4_PathspecOnly ==
    op \in {"repo_diff", "repo_file_history"} =>
        \A i \in Spawned :
            \A j \in FirstFileToken..Len(runs[i].argv) :
                runs[i].argv[j][1] = "-" =>
                    \E k \in 1..(j - 1) : runs[i].argv[k] = <<"--">>

\* s holds no shell metacharacter and no ".."
Sanitized(s) == (\A i \in 1..Len(s) : s[i] \notin Metachars) /\ ~HasDotDot(s)

\* C5: what sanitize_path returns holds none of ; & | ` $ ( ) { } and no
\* occurrence of "..", for a string handed to it directly and for the file
\* path a handler puts into its git command.
C5_SanitizePost ==
    /\ (pc = "done" /\ op = "sanitize_path") => Sanitized(ret)
    /\ (op \in {"repo_diff", "repo_file_history"}) =>
          \A i \in 1..Len(todo) : Sanitized(todo[i])

C5_Witness ==
    /\ pc = "done" /\ op = "sanitize_path"
    /\ arg.path = <<".", ".", ".">>
    /\ ret = <<".">>

MarkerHeads == {"\n\n... [Output truncated. Total: ", "\n\n... [Truncated from "}

\* the places of the truncation markers and of the captured output in a text
MarkersIn(t) == {i \in 1..Len(t) : t[i].k = "lit" /\ t[i].v \in MarkerHeads}
CapsIn(t) == {i \in 1..Len(t) : t[i].k = "cap"}

\* C6: when git's captured text is longer than the cap, the response holds
\* exactly its first 10,000 characters and then one marker that states the
\* length of the captured text; captured text within the cap that the
\* response holds is whole.
C6_OutputBounding ==
    (Finished /\ op # "repo_stats" /\ Len(runs) = 1 /\ runs[1].end = "exit") =>
        LET c == runs[1].cap IN
        /\ c.n > MAX_OUTPUT_LENGTH =>
              /\ \E i \in CapsIn(response) : response[i].n = MAX_OUTPUT_LENGTH
              /\ Cardinality(MarkersIn(response)) = 1
              /\ \A m \in MarkersIn(response) :
                    /\ m < Len(response)
                    /\ response[m + 1].k = "num"
                    /\ response[m + 1].v = c.n
        /\ c.n <= MAX_OUTPUT_LENGTH =>
              /\ \A i \in CapsIn(response) : response[i].n = c.n /\ ~response[i].cut
              /\ MarkersIn(response) = {}

\* no process runs unless run_git_command waits for it, and none runs for
\* longer than the timeout
ProcessBounded ==
    proc = "running" => (pc = "wait" /\ elapsed <= GIT_TIMEOUT)

\* an invocation that timed out returned the "timed out" result
TimeoutReported ==
    \A i \in 1..Len(results) :
        runs[i].end = "timeout" =>
            (Len(results[i]) = 4 /\ SameText(results[i], TimedOut(GIT_TIMEOUT)))

\* repo_stats that got to the executor made its three invocations
StatsRunsAll ==
    (pc = "done" /\ op = "repo_stats" /\ runs # <<>>) => Len(runs) = 3

\* C7: every call returns; a process that exceeds the timeout yields the
\* "timed out" result and does not run once the result is returned; each
\* process is timed from its own start; in repo_stats a timeout of one
\* invocation does not keep the following ones from running.
C7_Timeout ==
    /\ [](ProcessBounded /\ TimeoutReported /\ StatsRunsAll)
    /\ [][proc' = "running" /\ proc # "running" => elapsed' = 0]_vars
    /\ (pc # "idle") ~> (pc = "done")

C7_Witness ==
    /\ pc = "done" /\ op = "repo_stats"
    /\ Len(runs) = 3
    /\ runs[1].end = "timeout"
    /\ runs[2].end = "exit"
    /\ runs[3].end = "timeout"
    /\ proc = "killed"

FailureMarks == {"cross", "warn", "clock"}

\* something failed in the call
CallFailed ==
    \/ ~ArgsFine
    \/ resolved /\ repo_path = <<>>
    \/ \E i \in 1..Len(runs) :
          \/ runs[i].end \in {"badpath", "notgit", "spawnfail", "timeout"}
          \/ runs[i].end = "exit" /\ runs[i].rc # 0

\* C8: a response that reports a failure begins with a failure marker, and a
\* response that begins with another marker carries no failure or sentinel
\* text of the executor.
C8_LeadingMarker ==
    Finished =>
        /\ response # <<>> /\ response[1].k = "mark"
        /\ CallFailed => response[1].v \in FailureMarks
        /\ response[1].v \notin FailureMarks \cup {"check"} =>
              \A i \in 2..Len(response) :
                  response[i].k = "mark" => response[i].v \notin FailureMarks \cup {"check"}

\* the required argument of the call that is blank, the first the handler
\* checks
BlankRequired ==
    IF Strip(arg.repo_name) = <<>> THEN "Repository name"
    ELSE IF op = "repo_show_commit" /\ Strip(arg.commit_hash) = <<>> THEN "Commit hash"
    ELSE IF op = "repo_file_history" /\ Strip(arg.file_path) = <<>> THEN "File path"
    ELSE IF op = "repo_search" /\ Strip(arg.search_term) = <<>> THEN "Search term"
    ELSE ""

\* C9: with a blank required argument the call does no path resolution and
\* spawns nothing, and its response is the "... is required" error of that
\* argument; a process is spawned only for a name get_repo_path accepted and
\* a path that is a directory with a .git entry.
C9_ValidationFirst ==
    /\ (op \in Handlers /\ BlankRequired # "") =>
          /\ ~resolved
          /\ runs = <<>> /\ proc = "none"
          /\ pc \in {"entry", "done"}
          /\ pc = "done" =>
                /\ Len(response) = 2 /\ response[2].k = "lit"
                /\ response[1] = Mark("cross")
                /\ response[2].v = " Error: " \o BlankRequired \o " is required"
    /\ (pc \in {"spawn", "wait"} \/ proc # "none" \/ Spawned # {}) =>
          /\ resolved
          /\ repo_path # <<>>
          /\ IsDir(repo_path) /\ HasGitEntry(repo_path)

C9_Witness ==
    /\ pc = "done" /\ op = "repo_show_commit"
    /\ arg.repo_name = <<"a">> /\ arg.commit_hash = <<" ">>
    /\ ~resolved /\ runs = <<>>

\* C10: when git grep ran, repo_search answers "No matches found" if it ended
\* with status 1 and no output, and "Search results" only if the executor's
\* text is matching lines.
C10_SearchNoMatch ==
    (Finished /\ op = "repo_search" /\ Len(runs) = 1 /\ runs[1].end = "exit") =>
        /\ (runs[1].rc = 1 /\ runs[1].cap.n = 0)
              => response[2].v = " No matches found for '"
        /\ response[2].v = " Search results for '"
              => (runs[1].rc = 0 /\ runs[1].cap.cls = "lines")

=============================================================================
